---------------------------- MODULE Spec2Model ----------------------------
(***************************************************************************)
(* A model of tools/generate_golden_cases.py: the golden-fixture generator *)
(* that decodes each referenced media file, normalises what the decoder    *)
(* returned into canonical values and groups the cases by format.          *)
(*                                                                         *)
(* Python values are tagged records (field "shape" is the runtime type).   *)
(* A call that raises returns a record of shape "Raise"; callers that do   *)
(* not catch it pass it on.                                                *)
(***************************************************************************)
EXTENDS Integers, Sequences, FiniteSets, TLC

VARIABLES
    files,       \* main: the sorted list of referenced fixture names
    mapping,     \* main: name -> the test files that reference it
    pos,         \* main: index of the next file of the for loop
    by_format,   \* main: list of [format, cases] groups, in first-seen order
    written,     \* main: the documents written (fixtures and index)
    pc,          \* main: "loop", "write", "done", "exit" or "raised"
    decoded,     \* history: what the decoder did on each file, in order
    collected,   \* history: per file, whether the collectors were run
    call,        \* unit harness: the function applied and its argument
    ret          \* unit harness: what the call returned

vars == <<files, mapping, pos, by_format, written, pc, decoded, collected, call, ret>>

runVars == <<files, mapping, pos, by_format, written, pc, decoded, collected>>

unitVars == <<call, ret>>

-----------------------------------------------------------------------------
(* Bounds of the model *)

\* longest list of referenced files a run discovers
MaxFiles == 2

\* how many tag entries past the cap the largest tag container reports
MaxExtraTags == 2

-----------------------------------------------------------------------------
(* Python values *)

PyNone == [shape |-> "None"]

PyBool(b) == [shape |-> "bool", b |-> b]

PyInt(n) == [shape |-> "int", n |-> n]

\* a float: cls is "finite", "nan", "inf" or "-inf"; a finite one is
\* (-1)^neg * (ip + frac * 1e-10), frac < 10^10 kept small enough for TLC
PyFloat(cls, neg, ip, frac) == [shape |-> "float", cls |-> cls, neg |-> neg, ip |-> ip, frac |-> frac]

Finite(ip, frac) == PyFloat("finite", FALSE, ip, frac)

NaN == PyFloat("nan", FALSE, 0, 0)

PosInf == PyFloat("inf", FALSE, 0, 0)

NegInf == PyFloat("-inf", TRUE, 0, 0)

PyStr(s) == [shape |-> "str", s |-> s]

PyBytes(raw) == [shape |-> "bytes", raw |-> raw]

PyByteArray(raw) == [shape |-> "bytearray", raw |-> raw]

PyMemoryView(raw) == [shape |-> "memoryview", raw |-> raw]

PyList(items) == [shape |-> "list", items |-> items]

Raise(msg) == [shape |-> "Raise", msg |-> msg]

Raised(r) == r.shape = "Raise"

\* an instance of some other class: which attributes it exposes, whether it
\* subclasses bytes, and what bytes(value), iterating value.text and
\* str(value) give (each a value or a Raise)
PyObject(imageformat, isbytes, tobytes, hastext, text, str) ==
    [shape |-> "object", imageformat |-> imageformat, isbytes |-> isbytes,
     tobytes |-> tobytes, hastext |-> hastext, text |-> text, str |-> str]

-----------------------------------------------------------------------------
(* Python strings: TLA+ strings, with the character operations the code uses *)

\* the printable ASCII characters, code points 32 to 95 and 97 to 126 in
\* order (code point 96, the grave accent, is in no string of the model)
AsciiLow == " !\"#$%&'()*+,-./0123456789:;<=>?@ABCDEFGHIJKLMNOPQRSTUVWXYZ[\\]^_"

AsciiHigh == "abcdefghijklmnopqrstuvwxyz{|}~"

CharAt(s, i) == SubSeq(s, i, i)

IndexIn(table, c) == CHOOSE i \in 1..Len(table) : CharAt(table, i) = c

\* ord(c) of a printable ASCII character
Ord(c) ==
    IF \E i \in 1..Len(AsciiLow) : CharAt(AsciiLow, i) = c
    THEN 31 + IndexIn(AsciiLow, c)
    ELSE 96 + IndexIn(AsciiHigh, c)

\* chr(n) of a printable ASCII code point
Chr(n) == IF n <= 95 THEN CharAt(AsciiLow, n - 31) ELSE CharAt(AsciiHigh, n - 96)

LowerChar(c) == IF Ord(c) >= 65 /\ Ord(c) <= 90 THEN Chr(Ord(c) + 32) ELSE c

UpperChar(c) == IF Ord(c) >= 97 /\ Ord(c) <= 122 THEN Chr(Ord(c) - 32) ELSE c

\* str.lower()
RECURSIVE Lower(_)
Lower(s) == IF s = "" THEN "" ELSE LowerChar(CharAt(s, 1)) \o Lower(SubSeq(s, 2, Len(s)))

\* str.upper()
RECURSIVE Upper(_)
Upper(s) == IF s = "" THEN "" ELSE UpperChar(CharAt(s, 1)) \o Upper(SubSeq(s, 2, Len(s)))

\* str.startswith(prefix)
StartsWith(s, prefix) == Len(prefix) <= Len(s) /\ SubSeq(s, 1, Len(prefix)) = prefix

\* str.rfind(c): the last index (from 1) of character c in s, 0 when absent
RFind(s, c) ==
    LET hits == {i \in 1..Len(s) : CharAt(s, i) = c}
    IN  IF hits = {} THEN 0 ELSE CHOOSE i \in hits : \A j \in hits : j <= i

\* str.lstrip("."): without its leading dots
RECURSIVE LStripDots(_)
LStripDots(s) ==
    IF s # "" /\ CharAt(s, 1) = "." THEN LStripDots(SubSeq(s, 2, Len(s))) ELSE s

\* a < b in Python's string order (by code point, a proper prefix first)
RECURSIVE StrLess(_, _)
StrLess(a, b) ==
    IF b = "" THEN FALSE
    ELSE IF a = "" THEN TRUE
    ELSE IF CharAt(a, 1) = CharAt(b, 1)
         THEN StrLess(SubSeq(a, 2, Len(a)), SubSeq(b, 2, Len(b)))
         ELSE Ord(CharAt(a, 1)) < Ord(CharAt(b, 1))

\* os.path.splitext(name): <<root, ext>>; the extension starts at the last
\* dot of the last path component, unless that component has only leading dots
SplitExt(name) ==
    LET sepIndex == RFind(name, "/")
        dotIndex == RFind(name, ".")
        stem     == {i \in (sepIndex + 1)..(dotIndex - 1) : CharAt(name, i) # "."}
    IN  IF dotIndex > sepIndex /\ stem # {}
        THEN <<SubSeq(name, 1, dotIndex - 1), SubSeq(name, dotIndex, Len(name))>>
        ELSE <<name, "">>

-----------------------------------------------------------------------------
(* format_from_filename *)

\* a classifier that compares the extension as spelled
format_from_filename_case_sensitive(name) ==
    LET ext == LStripDots(SplitExt(name)[2])
    IN  IF ext \in {"m4a", "m4b", "m4p", "3g2"} THEN "m4a"
        ELSE IF ext = "mp4" THEN "mp4"
        ELSE IF ext \in {"dff", "dsdiff"} THEN "dsdiff"
        ELSE IF ext \in {"mid", "smf"} THEN "smf"
        ELSE "unknown"

format_from_filename(name) ==
    LET ext == LStripDots(Lower(SplitExt(name)[2]))
    IN  IF ext = "mp3" THEN "mp3"
        ELSE IF ext = "flac" THEN "flac"
        ELSE IF ext \in {"m4a", "m4b", "m4p", "mp4", "3g2"}
             THEN (IF ext \in {"m4a", "m4b", "m4p", "3g2"} THEN "m4a" ELSE "mp4")
        ELSE IF ext \in {"wav", "wave"} THEN "wave"
        ELSE IF ext \in {"aif", "aiff", "aifc"} THEN "aiff"
        ELSE IF ext \in {"asf", "wma"} THEN "asf"
        ELSE IF ext \in {"apev2"} THEN "apev2"
        ELSE IF ext \in {"mpc"} THEN "musepack"
        ELSE IF ext \in {"wv"} THEN "wavpack"
        ELSE IF ext \in {"tak"} THEN "tak"
        ELSE IF ext \in {"dsf"} THEN "dsf"
        ELSE IF ext \in {"dff", "dsdiff"} THEN "dsdiff"
        ELSE IF ext \in {"aac"} THEN "aac"
        ELSE IF ext \in {"ac3"} THEN "ac3"
        ELSE IF ext \in {"eac3"} THEN "eac3"
        ELSE IF ext \in {"ogg", "oga", "opus", "spx", "oggtheora", "oggflac", "ogv"} THEN "ogg"
        ELSE IF ext \in {"tta"} THEN "trueAudio"
        ELSE IF ext \in {"ofr", "ofs"} THEN "optimFrog"
        ELSE IF ext \in {"mid", "smf"} THEN "smf"
        ELSE IF ext \in {"ape"} THEN "monkeysAudio"
        ELSE IF ext \in {"id3"} THEN "id3"
        ELSE "unknown"

-----------------------------------------------------------------------------
(* str(), bytes.decode() and the digest *)

Digits == "0123456789"

HexDigits == "0123456789abcdef"

\* str(n) of a natural number
RECURSIVE NatToStr(_)
NatToStr(n) ==
    IF n < 10 THEN CharAt(Digits, n + 1)
    ELSE NatToStr(n \div 10) \o CharAt(Digits, (n % 10) + 1)

\* str(n) of an integer
IntToStr(n) == IF n < 0 THEN "-" \o NatToStr(-n) ELSE NatToStr(n)

RECURSIVE RStripZeros(_)
RStripZeros(s) ==
    IF s # "" /\ CharAt(s, Len(s)) = "0" THEN RStripZeros(SubSeq(s, 1, Len(s) - 1)) ELSE s

RECURSIVE ZeroPad(_, _)
ZeroPad(s, width) == IF Len(s) >= width THEN s ELSE ZeroPad("0" \o s, width)

\* repr(f) of a float (the finite ones of the model are those repr prints in
\* positional notation: ten decimals at most, and not below 1e-4)
FloatRepr(f) ==
    IF f.cls # "finite" THEN f.cls
    ELSE (IF f.neg THEN "-" ELSE "") \o NatToStr(f.ip) \o "."
         \o (IF f.frac = 0 THEN "0" ELSE RStripZeros(ZeroPad(NatToStr(f.frac), 10)))

\* two hex digits of a byte
Hex2(b) == CharAt(HexDigits, (b \div 16) + 1) \o CharAt(HexDigits, (b % 16) + 1)

\* the body of repr(bytes): a printable byte as its character, any other as
\* \xNN (the bytes of the model hold no quote, backslash, tab, CR or LF)
RECURSIVE BytesBody(_)
BytesBody(raw) ==
    IF raw = <<>> THEN ""
    ELSE (IF raw[1] >= 32 /\ raw[1] <= 126 /\ raw[1] # 96
          THEN Chr(raw[1]) ELSE "\\x" \o Hex2(raw[1]))
         \o BytesBody(Tail(raw))

\* the text U+FFFD is written as in the strings of the model
ReplacementChar == "<U+FFFD>"

\* bytes.decode("utf-8", "replace") (the bytes of the model are ASCII, or
\* bytes from 0x80 up that start no valid sequence: each becomes U+FFFD)
RECURSIVE DecodeUtf8Replace(_)
DecodeUtf8Replace(raw) ==
    IF raw = <<>> THEN ""
    ELSE (IF raw[1] < 128 THEN Chr(raw[1]) ELSE ReplacementChar)
         \o DecodeUtf8Replace(Tail(raw))

\* hashlib.sha256(raw).hexdigest(): a fixed-width hex digest that is a
\* function of the bytes and their order alone (16 bits stand for the 256)
RECURSIVE DigestState(_, _)
DigestState(h, raw) ==
    IF raw = <<>> THEN h
    ELSE DigestState((h * 31 + raw[1] + 1) % 65536, Tail(raw))

Sha256Hex(raw) ==
    LET h == DigestState(27145, raw)
    IN  Hex2(h \div 256) \o Hex2(h % 256)

RECURSIVE JoinStr(_, _)
JoinStr(sep, parts) ==
    IF parts = <<>> THEN ""
    ELSE IF Len(parts) = 1 THEN parts[1]
    ELSE parts[1] \o sep \o JoinStr(sep, Tail(parts))

\* the first Raise of a list of results, when there is one
FirstRaise(results) ==
    results[CHOOSE i \in 1..Len(results) :
                /\ Raised(results[i])
                /\ \A j \in 1..(i - 1) : ~Raised(results[j])]

AnyRaised(results) == \E i \in 1..Len(results) : Raised(results[i])

\* str(value): a str, or Raise when the object's __str__ raises
RECURSIVE StrOf(_)
\* repr(value), as str(list) prints its elements (an object of the model
\* keeps the default __repr__, which does not call its __str__)
RECURSIVE ReprOf(_)
StrOf(v) ==
    CASE v.shape = "None" -> PyStr("None")
      [] v.shape = "bool" -> PyStr(IF v.b THEN "True" ELSE "False")
      [] v.shape = "int" -> PyStr(IntToStr(v.n))
      [] v.shape = "float" -> PyStr(FloatRepr(v))
      [] v.shape = "str" -> v
      [] v.shape = "bytes" -> PyStr("b'" \o BytesBody(v.raw) \o "'")
      [] v.shape = "bytearray" -> PyStr("bytearray(b'" \o BytesBody(v.raw) \o "')")
      [] v.shape = "memoryview" -> PyStr("<memory at 0x0>")
      [] v.shape = "list" ->
            PyStr("[" \o JoinStr(", ", [i \in 1..Len(v.items) |-> ReprOf(v.items[i]).s]) \o "]")
      [] v.shape = "object" -> v.str

ReprOf(v) ==
    IF v.shape = "str" THEN PyStr("'" \o v.s \o "'")
    ELSE IF v.shape = "object"
         THEN (IF v.isbytes THEN StrOf(v.tobytes) ELSE PyStr("<object>"))
    ELSE StrOf(v)

-----------------------------------------------------------------------------
(* safe_number *)

IsFinite(f) == f.cls = "finite"

\* float(s) of the strings the model passes to it
ParseFloat(s) ==
    CASE s = "3" -> Finite(3, 0)
      [] s = "7.0000000001" -> Finite(7, 1)
      [] s = "0.125" -> Finite(0, 1250000000)
      [] s = "-2" -> PyFloat("finite", TRUE, 2, 0)
      [] s = "nan" -> NaN
      [] s = "inf" -> PosInf
      [] s = "-inf" -> NegInf
      [] OTHER -> Raise("could not convert string to float")

\* float(value) of a value that is no None, bool, int or float
FloatOf(value) ==
    IF value.shape = "str" THEN ParseFloat(value.s)
    ELSE Raise("float() argument must be a string or a number")

\* int(v) of a finite float: truncation toward zero
IntOfFloat(v) == IF v.neg THEN -v.ip ELSE v.ip

\* abs(v - int(v)) < 1e-9, the fraction being in units of 1e-10
NearInteger(v) == v.frac < 10

safe_number(value) ==
    IF value.shape = "None" THEN PyNone
    ELSE IF value.shape = "bool" THEN value
    ELSE IF value.shape = "int" THEN PyInt(value.n)
    ELSE IF value.shape = "float"
         THEN (IF ~IsFinite(value) THEN PyNone ELSE value)
    ELSE LET v == FloatOf(value)
         IN  IF Raised(v) THEN PyNone
             ELSE IF IsFinite(v)
                  THEN (IF NearInteger(v) THEN PyInt(IntOfFloat(v)) ELSE v)
             ELSE PyNone

-----------------------------------------------------------------------------
(* normalize_tag_value *)

\* a dict {"kind": kind, "value": value}
Canon(kind, value) == [shape |-> "dict", kind |-> kind, value |-> value]

\* the dict {"kind": "binary", "value": {"size": .., "sha256": ..}} of raw bytes
Binary(raw) ==
    Canon("binary", [shape |-> "dict", size |-> PyInt(Len(raw)),
                     sha256 |-> PyStr(Sha256Hex(raw))])

\* hasattr(value, "imageformat")
HasImageformat(value) == value.shape = "object" /\ value.imageformat

\* hasattr(value, "text")
HasText(value) == value.shape = "object" /\ value.hastext

\* isinstance(value, bytes)
IsBytes(value) == value.shape = "bytes" \/ (value.shape = "object" /\ value.isbytes)

\* isinstance(x, (bytes, bytearray, memoryview))
IsBytesLike(x) == IsBytes(x) \/ x.shape \in {"bytearray", "memoryview"}

\* isinstance(x, (str, bytes, int, float, bool))
IsPrimitive(x) == IsBytes(x) \/ x.shape \in {"str", "int", "float", "bool"}

\* bytes(value): a bytes, or Raise (an instance of a bytes subclass holds
\* the bytes that bytes(value) gives)
BytesOf(value) ==
    IF value.shape = "object" THEN value.tobytes ELSE PyBytes(value.raw)

\* a join that keeps the first blob alone
ConcatRawFirstOnly(blobs) == IF blobs = <<>> THEN <<>> ELSE blobs[1].raw

RECURSIVE ConcatRaw(_)
\* b"".join(blobs)
ConcatRaw(blobs) ==
    IF blobs = <<>> THEN <<>> ELSE blobs[1].raw \o ConcatRaw(Tail(blobs))

\* [str(x) for x in value.text]: a list of str, or Raise
TextsOf(value) ==
    IF Raised(value.text) THEN value.text
    ELSE LET strs == [i \in 1..Len(value.text.items) |-> StrOf(value.text.items[i])]
         IN  IF AnyRaised(strs) THEN FirstRaise(strs) ELSE PyList(strs)

\* a fallback that stores the bare string
SingleTextBare(text) == Canon("text", text)

\* line 192: {"kind": "text", "value": [text]}
SingleText(text) == Canon("text", PyList(<<text>>))

\* lines 151-194, after the image and text-list rules
normalize_plain_value(value) ==
    IF IsBytes(value) THEN Binary(BytesOf(value).raw)
    ELSE IF value.shape = "list" /\ value.items # <<>>
            /\ \A i \in 1..Len(value.items) : IsBytesLike(value.items[i])
         THEN LET blobs == [i \in 1..Len(value.items) |-> BytesOf(value.items[i])]
              IN  IF AnyRaised(blobs) THEN FirstRaise(blobs) ELSE Binary(ConcatRaw(blobs))
    ELSE IF value.shape = "list"
            /\ \A i \in 1..Len(value.items) : IsPrimitive(value.items[i])
         THEN Canon("text", PyList([i \in 1..Len(value.items) |->
                  IF IsBytes(value.items[i])
                  THEN PyStr(DecodeUtf8Replace(BytesOf(value.items[i]).raw))
                  ELSE StrOf(value.items[i])]))
    ELSE IF value.shape = "bool" THEN Canon("bool", value)
    ELSE IF value.shape = "int" THEN Canon("int", value)
    ELSE IF value.shape = "float" /\ IsFinite(value) THEN Canon("double", value)
    ELSE LET text == StrOf(value)
         IN  IF Raised(text) THEN text
             ELSE IF text.s # "" THEN SingleText(text)
             ELSE PyNone

\* a canonical dict, None, or Raise when bytes(value) or str(value) raises
normalize_tag_value(value) ==
    IF HasImageformat(value)
    THEN LET raw == BytesOf(value)
         IN  IF Raised(raw) THEN raw ELSE Binary(raw.raw)
    ELSE IF HasText(value) /\ ~Raised(TextsOf(value))
         THEN Canon("text", TextsOf(value))
    ELSE normalize_plain_value(value)

-----------------------------------------------------------------------------
(* Decoded files and dicts *)

\* a dict that maps keys to values: its entries in insertion order
PyDict(entries) == [shape |-> "dict", entries |-> entries]

Keys(d) == {d.entries[i].key : i \in 1..Len(d.entries)}

\* d[key] = value: a new key is added last, a known key keeps its place
DictSet(d, key, value) ==
    IF key \in Keys(d)
    THEN PyDict([i \in 1..Len(d.entries) |->
                    IF d.entries[i].key = key
                    THEN [key |-> key, value |-> value] ELSE d.entries[i]])
    ELSE PyDict(Append(d.entries, [key |-> key, value |-> value]))

\* d[key] of a key of d
DictGet(d, key) ==
    d.entries[CHOOSE i \in 1..Len(d.entries) : d.entries[i].key = key].value

\* what mutagen.File returns: tags and info are None (or missing) or objects
Audio(tags, info) == [shape |-> "audio", tags |-> tags, info |-> info]

\* a tag container: whether it has .items, and what list(source.items())
\* gives, a list of [key, value] pairs or Raise
TagContainer(hasitems, items) == [shape |-> "tags", hasitems |-> hasitems, items |-> items]

\* an info object: the attributes it has, as [name, value] pairs
Info(attrs) == [shape |-> "info", attrs |-> attrs]

\* hasattr(info, name)
HasAttr(info, name) == \E i \in 1..Len(info.attrs) : info.attrs[i].name = name

\* getattr(info, name, None)
GetAttr(info, name) ==
    IF HasAttr(info, name)
    THEN info.attrs[CHOOSE i \in 1..Len(info.attrs) : info.attrs[i].name = name].value
    ELSE PyNone

-----------------------------------------------------------------------------
(* collect_tags *)

TagCap == 120

wanted_prefixes ==
    <<"T", "TITLE", "ARTIST", "ALBUM", "GENRE", "COMMENT",
      "\\xa9", "covr", "trkn", "disk", "tmpo", "cpil", "purl">>

\* lines 219-222: whether the entry of this key is kept
KeyWanted(key_str) ==
    \/ \E i \in 1..Len(wanted_prefixes) : StartsWith(key_str, wanted_prefixes[i])
    \/ Upper(key_str) \in {"TITLE", "ARTIST", "ALBUM", "GENRE", "COMMENT"}

\* a slice that caps nothing
CappedItemsUncapped(items) == items

\* items[:120]
CappedItems(items) == SubSeq(items, 1, IF Len(items) < TagCap THEN Len(items) ELSE TagCap)

\* the body of the for loop, lines 216-225, on one entry: the dict after it,
\* or the Raise of str(key) or of normalize_tag_value, which nothing catches
\* (after a Raise the loop runs no further body)
CollectTagsStep(tags, entry) ==
    IF Raised(tags) THEN tags
    ELSE LET key_str == StrOf(entry.key)
         IN  IF Raised(key_str) THEN key_str
             ELSE IF key_str.s = "" THEN tags
             ELSE IF ~KeyWanted(key_str.s) THEN tags
             ELSE LET normalized == normalize_tag_value(entry.value)
                  IN  IF Raised(normalized) THEN normalized
                      ELSE IF normalized.shape # "None"
                           THEN DictSet(tags, key_str.s, normalized)
                      ELSE tags

\* the for loop of line 215 over entries lo..hi in order, from the dict tags
RECURSIVE CollectTagsLoop(_, _, _, _)
CollectTagsLoop(items, lo, hi, tags) ==
    IF lo > hi THEN tags
    ELSE IF lo = hi THEN CollectTagsStep(tags, items[lo])
    ELSE LET mid == (lo + hi) \div 2
             done == CollectTagsLoop(items, lo, mid, tags)
         IN  IF Raised(done) THEN done ELSE CollectTagsLoop(items, mid + 1, hi, done)

collect_tags(audio) ==
    LET source == audio.tags
        items  == IF source.hasitems /\ ~Raised(source.items) THEN source.items.items ELSE <<>>
    IN  IF source.shape = "None" THEN PyDict(<<>>)
        ELSE CollectTagsLoop(CappedItems(items), 1, Len(CappedItems(items)), PyDict(<<>>))

-----------------------------------------------------------------------------
(* collect_extensions *)

ExtensionAttrs ==
    <<"version", "layer", "bitrate_mode", "encoder_info", "codec",
      "codec_name", "codec_description", "track_gain", "track_peak",
      "album_gain", "album_peak", "title_gain", "title_peak">>

\* the for loop of lines 241-252 from attribute i on: the dict, or the Raise
\* of str(value), which nothing catches
RECURSIVE CollectExtensionsLoop(_, _, _)
CollectExtensionsLoop(info, i, ext) ==
    IF i > Len(ExtensionAttrs) THEN ext
    ELSE LET name  == ExtensionAttrs[i]
             value == GetAttr(info, name)
         IN  IF ~HasAttr(info, name) \/ value.shape = "None"
             THEN CollectExtensionsLoop(info, i + 1, ext)
             ELSE IF value.shape \in {"int", "bool"}
             THEN CollectExtensionsLoop(info, i + 1, DictSet(ext, name,
                      Canon("int", PyInt(IF value.shape = "bool"
                                         THEN (IF value.b THEN 1 ELSE 0) ELSE value.n))))
             ELSE IF value.shape = "float"
             THEN CollectExtensionsLoop(info, i + 1,
                      IF IsFinite(value) THEN DictSet(ext, name, Canon("double", value)) ELSE ext)
             ELSE LET text == StrOf(value)
                  IN  IF Raised(text) THEN text
                      ELSE CollectExtensionsLoop(info, i + 1,
                               DictSet(ext, name, Canon("text", PyList(<<text>>))))

collect_extensions(audio) ==
    IF audio.info.shape = "None" THEN PyDict(<<>>)
    ELSE CollectExtensionsLoop(audio.info, 1, PyDict(<<>>))

-----------------------------------------------------------------------------
(* build_case *)

\* sorted(set(names)): insertion of each name into a sorted list without it
RECURSIVE SortedSet(_)
SortedSet(names) ==
    IF names = {} THEN <<>>
    ELSE LET least == CHOOSE n \in names : \A m \in names : m = n \/ StrLess(n, m)
         IN  <<least>> \o SortedSet(names \ {least})

Range(seq) == {seq[i] : i \in 1..Len(seq)}

EmptyCoreInfo ==
    [length |-> PyNone, bitrate |-> PyNone, sampleRate |-> PyNone,
     channels |-> PyNone, bitsPerSample |-> PyNone]

\* lines 259-274: the case before the decoder is called
NewCase(filename, source_tests) ==
    [shape |-> "dict",
     caseId |-> SplitExt(filename)[1],
     sourcePythonTest |-> SortedSet(Range(source_tests)),
     inputFile |-> filename,
     expectedFormat |-> format_from_filename(filename),
     expectedCoreInfo |-> EmptyCoreInfo,
     expectedTags |-> PyDict(<<>>),
     expectedExtensions |-> PyDict(<<>>),
     expectedError |-> PyNone]

\* an error record that drops the raised error's text
InvalidHeaderNoMessage(exc) == [shape |-> "dict", code |-> "invalidHeader", message |-> ""]

\* lines 279-282
InvalidHeader(exc) == [shape |-> "dict", code |-> "invalidHeader", message |-> exc.msg]

\* lines 286-289
UnsupportedFormat == [shape |-> "dict", code |-> "unsupportedFormat", message |-> "mutagen returned None"]

\* lines 292-298
CoreInfoOf(audio) ==
    IF audio.info.shape = "None" THEN EmptyCoreInfo
    ELSE [length |-> safe_number(GetAttr(audio.info, "length")),
          bitrate |-> safe_number(GetAttr(audio.info, "bitrate")),
          sampleRate |-> safe_number(GetAttr(audio.info, "sample_rate")),
          channels |-> safe_number(GetAttr(audio.info, "channels")),
          bitsPerSample |-> safe_number(GetAttr(audio.info, "bits_per_sample"))]

\* a build_case that records a collector's failure as the case's error and
\* keeps what it had read
build_case_catch_all(filename, source_tests, outcome) ==
    LET case == NewCase(filename, source_tests)
    IN  IF Raised(outcome)
        THEN [case EXCEPT !.expectedError = InvalidHeader(outcome)]
        ELSE IF outcome.shape = "None"
        THEN [case EXCEPT !.expectedError = UnsupportedFormat]
        ELSE LET tags == collect_tags(outcome)
                 ext  == collect_extensions(outcome)
             IN  IF Raised(tags)
                 THEN [case EXCEPT !.expectedCoreInfo = CoreInfoOf(outcome),
                                   !.expectedError = InvalidHeader(tags)]
                 ELSE IF Raised(ext)
                 THEN [case EXCEPT !.expectedCoreInfo = CoreInfoOf(outcome),
                                   !.expectedTags = tags,
                                   !.expectedError = InvalidHeader(ext)]
                 ELSE [case EXCEPT !.expectedCoreInfo = CoreInfoOf(outcome),
                                   !.expectedTags = tags,
                                   !.expectedExtensions = ext]

\* build_case(filename, source_tests) when mutagen.File(abs_path) does
\* `outcome`: raises (a Raise), returns None, or returns an Audio.
\* The result is the case, or the Raise that escapes build_case.
build_case(filename, source_tests, outcome) ==
    LET case == NewCase(filename, source_tests)
    IN  IF Raised(outcome)
        THEN [case EXCEPT !.expectedError = InvalidHeader(outcome)]
        ELSE IF outcome.shape = "None"
        THEN [case EXCEPT !.expectedError = UnsupportedFormat]
        ELSE LET tags == collect_tags(outcome)
                 ext  == collect_extensions(outcome)
             IN  IF Raised(tags) THEN tags
                 ELSE IF Raised(ext) THEN ext
                 ELSE [case EXCEPT !.expectedCoreInfo = CoreInfoOf(outcome),
                                   !.expectedTags = tags,
                                   !.expectedExtensions = ext]

\* whether build_case gets as far as calling collect_tags
RunsTagCollector(outcome) == ~Raised(outcome) /\ outcome.shape # "None"

\* whether build_case gets as far as calling collect_extensions
RunsExtensionCollector(outcome) ==
    ~Raised(outcome) /\ outcome.shape # "None" /\ ~Raised(collect_tags(outcome))

-----------------------------------------------------------------------------
(* The inputs of the model: file names *)

\* the extensions lines 66-107 name
TableExts ==
    {"mp3", "flac", "m4a", "m4b", "m4p", "mp4", "3g2", "wav", "wave", "aif",
     "aiff", "aifc", "asf", "wma", "apev2", "mpc", "wv", "tak", "dsf", "dff",
     "dsdiff", "aac", "ac3", "eac3", "ogg", "oga", "opus", "spx", "oggtheora",
     "oggflac", "ogv", "tta", "ofr", "ofs", "mid", "smf", "ape", "id3"}

\* extensions no line names
OtherExts == {"xyz", "mp", "mp3x", "json", "m4", "ogg2", "midi", "mp4a"}

\* what precedes the last dot: a plain name, a name with an inner dot, a
\* path with a dotted directory, a name that ends in a dot
Stems == {"a", "x.y", "d.e/f", "g."}

\* an extension as spelled in a file name: lower, upper or capitalised
Spellings(ext) == {ext, Upper(ext), UpperChar(CharAt(ext, 1)) \o SubSeq(ext, 2, Len(ext))}

\* names with an extension
DottedNames ==
    {stem \o "." \o sp : stem \in Stems, sp \in UNION {Spellings(e) : e \in TableExts \cup OtherExts}}

\* names without one: no dot, a trailing dot, only a leading dot, a dot in
\* the directory alone
BareNames == {"mp3", "flac.", ".mp3", "..ogg", "d.mp3/f", "d.e/.m4a", ""}

FileNames == DottedNames \cup BareNames

-----------------------------------------------------------------------------
(* The inputs of the model: decoded values *)

RawSet == {<<>>, <<65>>, <<65, 66>>, <<255, 0, 66>>}

NoBytes == Raise("cannot convert object to bytes")

\* an image-like bytes subclass (as MP4Cover)
Image(raw) == PyObject(TRUE, TRUE, PyBytes(raw), FALSE, PyNone, PyStr("cover"))

\* an image-like object that also has .text
ImageWithText(raw) ==
    PyObject(TRUE, FALSE, PyBytes(raw), TRUE, PyList(<<PyStr("front")>>), PyStr("picture"))

\* an object with imageformat that bytes() cannot convert
BrokenImage == PyObject(TRUE, FALSE, NoBytes, FALSE, PyNone, PyStr("picture"))

\* a text frame
TextFrame(texts) == PyObject(FALSE, FALSE, NoBytes, TRUE, PyList(texts), PyStr("frame"))

\* an object whose str() raises
Unprintable == PyObject(FALSE, FALSE, NoBytes, FALSE, PyNone, Raise("bad __str__"))

\* an object with the given str()
Printable(s) == PyObject(FALSE, FALSE, NoBytes, FALSE, PyNone, PyStr(s))

\* the ways to cut raw into a list of blobs: one blob, two blobs, none
BlobSplits(raw) ==
    {<<raw>>} \cup {<<SubSeq(raw, 1, k), SubSeq(raw, k + 1, Len(raw))>> : k \in 0..Len(raw)}
    \cup (IF raw = <<>> THEN {<<>>} ELSE {})

BlobList(parts, shape) == PyList([i \in 1..Len(parts) |-> [shape |-> shape, raw |-> parts[i]]])

\* the collections whose elements are all byte sequences that join to raw
BlobLists(raw) ==
    {BlobList(parts, shape) : parts \in BlobSplits(raw), shape \in {"bytes", "bytearray", "memoryview"}}
    \cup {PyList(<<PyBytes(<<>>), Image(raw), PyByteArray(<<>>)>>)}

\* the representations of the byte content raw
BinaryInputs(raw) == {Image(raw), ImageWithText(raw), PyBytes(raw)} \cup BlobLists(raw)

Floats ==
    {NaN, PosInf, NegInf, Finite(3, 0), Finite(0, 1250000000), Finite(7, 1),
     Finite(7, 10), PyFloat("finite", TRUE, 2, 5)}

OtherInputs ==
    {PyNone, PyBool(TRUE), PyBool(FALSE), PyInt(0), PyInt(-7), PyInt(320),
     PyStr(""), PyStr("Title"), PyStr("nan"),
     PyByteArray(<<65>>), PyMemoryView(<<65>>),
     BrokenImage, Unprintable, Printable(""), Printable("ASFValue"),
     PyObject(FALSE, TRUE, PyBytes(<<65, 66>>), FALSE, PyNone, PyStr("b'AB'")),
     PyObject(FALSE, TRUE, PyBytes(<<65, 66>>), TRUE, PyList(<<PyStr("AB")>>), PyStr("b'AB'")),
     TextFrame(<<PyStr("Artist A"), PyStr("Artist B")>>),
     TextFrame(<<>>),
     TextFrame(<<PyInt(2004), NaN, PyBytes(<<65>>)>>),
     TextFrame(<<PyStr("a"), Unprintable>>),
     PyObject(FALSE, FALSE, NoBytes, TRUE, Raise("not iterable"), PyStr("odd frame")),
     PyObject(FALSE, FALSE, NoBytes, TRUE, Raise("not iterable"), PyStr("")),
     PyObject(FALSE, FALSE, NoBytes, TRUE, Raise("not iterable"), Raise("bad __str__")),
     PyList(<<PyStr("a"), PyStr("b")>>),
     PyList(<<PyStr("a"), PyBytes(<<65, 255>>), PyInt(3), Finite(3, 0), PyBool(TRUE)>>),
     PyList(<<NaN>>), PyList(<<PosInf, PyInt(1)>>),
     PyList(<<PyStr("a"), PyNone>>),
     PyList(<<PyByteArray(<<65>>), PyStr("a")>>),
     PyList(<<PyStr("a"), Unprintable>>),
     PyList(<<PyList(<<PyInt(1)>>)>>)}

TagValues == (UNION {BinaryInputs(raw) : raw \in RawSet}) \cup Floats \cup OtherInputs

\* what getattr(info, name) can be
NumberInputs ==
    Floats \cup
    {PyNone, PyBool(TRUE), PyBool(FALSE), PyInt(0), PyInt(44100), PyInt(-1),
     PyStr("3"), PyStr("7.0000000001"), PyStr("0.125"), PyStr("-2"), PyStr("nan"),
     PyStr("inf"), PyStr("-inf"), PyStr("abc"), PyStr(""),
     PyList(<<PyInt(1)>>), PyBytes(<<65>>), Unprintable}

-----------------------------------------------------------------------------
(* The inputs of the model: decoded files *)

Entry(key, value) == [key |-> PyStr(key), value |-> value]

Attr(name, value) == [name |-> name, value |-> value]

\* entry i of a large container: every `skip`-th key fails the key filter,
\* every `blank`-th value is an empty string (0: none)
BigEntry(i, skip, blank) ==
    Entry((IF skip > 0 /\ i % skip = 0 THEN "XTAG" ELSE "TXXX:") \o NatToStr(i),
          IF blank > 0 /\ i % blank = 0 THEN PyStr("") ELSE PyList(<<PyStr(NatToStr(i))>>))

BigItems(n, skip, blank) == [i \in 1..n |-> BigEntry(i, skip, blank)]

\* containers that report about as many entries as the cap, and more
BigContainers ==
    {TagContainer(TRUE, PyList(BigItems(n, skip, blank))) :
        n \in (TagCap - 1)..(TagCap + MaxExtraTags), skip \in {0, 2, 7, 120}, blank \in {0, 5}}

SmallItems ==
    {<<>>,
     <<Entry("TIT2", TextFrame(<<PyStr("Title")>>)),
       Entry("TPE1", TextFrame(<<PyStr("Artist A"), PyStr("Artist B")>>)),
       Entry("covr", PyList(<<Image(<<65, 66>>)>>)),
       Entry("XSEEK", PyStr("skipped")),
       Entry("", PyStr("no key")),
       Entry("title", PyList(<<PyStr("lower")>>)),
       Entry("Genre", PyStr("Rock")),
       Entry("tbpm", PyInt(120)),
       Entry("\\xa9nam", PyList(<<PyStr("Name")>>)),
       Entry("cpil", PyBool(TRUE)),
       Entry("tmpo", PyList(<<PyInt(120)>>))>>,
     <<Entry("TBPM", NaN), Entry("TLEN", Finite(3, 0)), Entry("TGAIN", NegInf)>>,
     <<Entry("TIT2", TextFrame(<<PyStr("Title")>>)),
       Entry("TXXX:bad", Unprintable),
       Entry("TALB", PyStr("Album"))>>,
     <<Entry("covr", BrokenImage), Entry("TALB", PyStr("Album"))>>,
     <<Entry("XBAD", Unprintable), Entry("TIT2", PyStr("Title"))>>,
     <<Entry("TCON", PyStr("")), Entry("TDRC", Printable("")), Entry("TPE2", TextFrame(<<>>))>>,
     <<Entry("Title", PyStr("first")), Entry("Title", PyStr("second")), Entry("Artist", PyStr("a"))>>,
     <<Entry("APIC", Image(<<255, 0, 66>>)), Entry("TDAT", PyBytes(<<65>>)),
       Entry("TKEY", PyList(<<PyBytes(<<65>>), PyByteArray(<<66>>)>>)), Entry("TEMP", PyList(<<>>))>>}

SmallContainers ==
    {TagContainer(TRUE, PyList(items)) : items \in SmallItems}
    \cup {TagContainer(FALSE, PyList(<<Entry("TIT2", PyStr("Title"))>>)),
          TagContainer(TRUE, Raise("items() failed"))}

TagSources == {PyNone} \cup SmallContainers \cup BigContainers

Infos ==
    {PyNone,
     Info(<<>>),
     Info(<<Attr("length", Finite(3, 1250000000)), Attr("bitrate", PyInt(320000)),
            Attr("sample_rate", PyInt(44100)), Attr("channels", PyInt(2)),
            Attr("version", Finite(1, 0)), Attr("layer", PyInt(3)),
            Attr("bitrate_mode", Printable("BitrateMode.CBR")),
            Attr("encoder_info", PyStr("")), Attr("track_gain", NaN),
            Attr("track_peak", PyNone), Attr("album_gain", PyFloat("finite", TRUE, 6, 1000000000))>>),
     Info(<<Attr("length", NaN), Attr("bitrate", PosInf), Attr("sample_rate", PyStr("abc")),
            Attr("channels", PyBool(TRUE)), Attr("bits_per_sample", PyStr("7.0000000001")),
            Attr("album_peak", NegInf), Attr("title_gain", PosInf), Attr("codec", PyStr("mp4a"))>>),
     Info(<<Attr("length", Finite(7, 1)), Attr("bits_per_sample", PyInt(16)),
            Attr("codec_name", PyStr("ALAC")), Attr("codec_description", Unprintable),
            Attr("title_peak", Finite(0, 1250000000))>>),
     Info(<<Attr("length", NegInf), Attr("version", PyBool(TRUE)), Attr("layer", PyBool(FALSE)),
            Attr("codec", PyBytes(<<65>>)), Attr("sample_rate", PyStr("inf"))>>)}

\* what mutagen.File does on a file of a run
DecoderOutcomes ==
    {Raise("bad magic bytes"), Raise(""), PyNone, Audio(PyNone, PyNone)}
    \cup {Audio(TagContainer(TRUE, PyList(items)), info) :
            items \in {<<Entry("TIT2", TextFrame(<<PyStr("Title")>>)), Entry("XSEEK", PyStr("s"))>>,
                       <<Entry("TBPM", NaN), Entry("TLEN", Finite(3, 0))>>,
                       <<Entry("TIT2", PyStr("Title")), Entry("TXXX:bad", Unprintable),
                         Entry("TALB", PyStr("Album"))>>,
                       <<Entry("covr", BrokenImage), Entry("TALB", PyStr("Album"))>>},
            info \in {PyNone,
                      Info(<<Attr("length", NaN), Attr("bitrate", PyInt(320000)),
                             Attr("track_gain", PosInf), Attr("layer", PyInt(3))>>)}}
    \cup {Audio(PyNone, Info(<<Attr("length", Finite(3, 0)), Attr("codec", PyStr("mp4a")),
                               Attr("codec_description", Unprintable),
                               Attr("title_peak", Finite(0, 1250000000))>>))}

\* the fixture names the test files refer to, and the test files that do
\* (a reference that matches both patterns of lines 39-42 is listed twice)
Corpus == {"corrupt.mp3", "empty.oga", "empty.ogg", "has-tags.m4a", "README"}

References(name) ==
    CASE name = "corrupt.mp3" -> <<"test_mp3.py", "test_mp3.py", "test_id3.py", "test_id3.py">>
      [] name = "empty.ogg" -> <<"test_ogg.py", "test_ogg.py", "test_oggvorbis.py">>
      [] name = "empty.oga" -> <<"test_oggflac.py", "test_oggflac.py">>
      [] name = "has-tags.m4a" -> <<"test_mp4.py", "test_mp4.py">>
      [] OTHER -> <<"test_apev2.py">>

-----------------------------------------------------------------------------
(* The functions applied one at a time *)

Pending == [shape |-> "pending"]

Call(fn, arg) == [fn |-> fn, arg |-> arg]

NoCall == Call("none", PyNone)

UnitCalls ==
    {Call("format_from_filename", PyStr(n)) : n \in FileNames}
    \cup {Call("safe_number", v) : v \in NumberInputs}
    \cup {Call("normalize_tag_value", v) : v \in TagValues}
    \cup {Call("collect_tags", Audio(t, PyNone)) : t \in TagSources}
    \cup {Call("collect_extensions", Audio(PyNone, i)) : i \in Infos}

Returned == ret # Pending

RunIdle ==
    /\ files = <<>>
    /\ mapping = <<>>
    /\ pos = 1
    /\ by_format = <<>>
    /\ written = PyNone
    /\ pc = "idle"
    /\ decoded = <<>>
    /\ collected = <<>>

InitUnit ==
    /\ call \in UnitCalls
    /\ ret = Pending
    /\ RunIdle

Apply(fn, result) ==
    /\ call.fn = fn
    /\ ret = Pending
    /\ ret' = result
    /\ UNCHANGED <<call, runVars>>

CallFormat == Apply("format_from_filename", PyStr(format_from_filename(call.arg.s)))

CallSafeNumber == Apply("safe_number", safe_number(call.arg))

CallNormalize == Apply("normalize_tag_value", normalize_tag_value(call.arg))

CallCollectTags == Apply("collect_tags", collect_tags(call.arg))

CallCollectExtensions == Apply("collect_extensions", collect_extensions(call.arg))

NextUnit ==
    \/ CallFormat
    \/ CallSafeNumber
    \/ CallNormalize
    \/ CallCollectTags
    \/ CallCollectExtensions

SpecUnit == InitUnit /\ [][NextUnit]_vars

-----------------------------------------------------------------------------
(* main *)

\* the lists parse_referenced_files can return: sorted(found) of the names
\* found, and for each the test files that refer to it
Init ==
    /\ \E found \in SUBSET Corpus :
          /\ Cardinality(found) <= MaxFiles
          /\ files = SortedSet(found)
          /\ mapping = [n \in found |-> References(n)]
    /\ pos = 1
    /\ by_format = <<>>
    /\ written = PyNone
    /\ pc = "main"
    /\ decoded = <<>>
    /\ collected = <<>>
    /\ call = NoCall
    /\ ret = Pending

\* by_format[fmt].append(case) of a defaultdict(list)
AppendCase(groups, fmt, case) ==
    [f \in DOMAIN groups \cup {fmt} |->
        IF f = fmt
        THEN Append(IF f \in DOMAIN groups THEN groups[f] ELSE <<>>, case)
        ELSE groups[f]]

\* cases.sort(key=lambda x: x["inputFile"]): a stable sort
RECURSIVE SortCases(_)
SortCases(cases) ==
    IF cases = <<>> THEN <<>>
    ELSE LET first == CHOOSE i \in 1..Len(cases) :
                         /\ \A j \in 1..Len(cases) : ~StrLess(cases[j].inputFile, cases[i].inputFile)
                         /\ \A j \in 1..(i - 1) : StrLess(cases[i].inputFile, cases[j].inputFile)
         IN  <<cases[first]>> \o SortCases(SubSeq(cases, 1, first - 1) \o SubSeq(cases, first + 1, Len(cases)))

\* lines 317-329: one document per format in sorted order, the index, the summary
Documents(groups) ==
    LET fmts == SortedSet(DOMAIN groups)
    IN  [fixtures |-> [i \in 1..Len(fmts) |->
                          [file |-> fmts[i] \o ".json", format |-> fmts[i],
                           cases |-> SortCases(groups[fmts[i]])]],
         index |-> [i \in 1..Len(fmts) |->
                       [format |-> fmts[i], file |-> fmts[i] \o ".json",
                        count |-> Len(groups[fmts[i]])]]]

\* lines 307-308: no referenced fixture, SystemExit
NoFiles ==
    /\ pc = "main"
    /\ files = <<>>
    /\ pc' = "exit"
    /\ UNCHANGED <<files, mapping, pos, by_format, written, decoded, collected, unitVars>>

\* lines 313-315: one turn of the loop; the decoder does `outcome`, and an
\* exception that escapes build_case ends main
ProcessFile ==
    /\ pc = "main"
    /\ pos <= Len(files)
    /\ \E outcome \in DecoderOutcomes :
          LET filename == files[pos]
              case     == build_case(filename, mapping[filename], outcome)
          IN  /\ decoded' = Append(decoded, outcome)
              /\ collected' = Append(collected, [tags |-> RunsTagCollector(outcome),
                                                 extensions |-> RunsExtensionCollector(outcome)])
              /\ IF Raised(case)
                 THEN /\ pc' = "raised"
                      /\ UNCHANGED <<pos, by_format>>
                 ELSE /\ by_format' = AppendCase(by_format, case.expectedFormat, case)
                      /\ pos' = pos + 1
                      /\ pc' = pc
    /\ UNCHANGED <<files, mapping, written, unitVars>>

\* lines 317-329: the loop is over, the documents are written
WriteFixtures ==
    /\ pc = "main"
    /\ files # <<>>
    /\ pos > Len(files)
    /\ written' = Documents(by_format)
    /\ pc' = "done"
    /\ UNCHANGED <<files, mapping, pos, by_format, decoded, collected, unitVars>>

Next ==
    \/ NoFiles
    \/ ProcessFile
    \/ WriteFixtures

Spec == Init /\ [][Next]_vars

-----------------------------------------------------------------------------
(* Properties of a run *)

\* the cases build_case has returned so far
BuiltCases == UNION {Range(by_format[f]) : f \in DOMAIN by_format}

\* the files build_case has returned a case for
Returned_Files == {i \in 1..Len(decoded) : ~(pc = "raised" /\ i = Len(decoded))}

\* the case of the i-th file
CaseAt(i) == CHOOSE c \in BuiltCases : c.inputFile = files[i]

RunEnded == pc \in {"done", "raised"}

IsAudio(outcome) == outcome.shape = "audio"

NonFinite(value) == value.shape = "float" /\ value.cls # "finite"

\* the tag entries collect_tags reads
EnumeratedItems(audio) ==
    IF audio.tags.shape = "None" \/ ~audio.tags.hasitems \/ Raised(audio.tags.items)
    THEN <<>> ELSE audio.tags.items.items

\* the extension attributes the info object has
ExtensionValues(audio) ==
    IF audio.info.shape = "None" THEN {}
    ELSE {a \in Range(audio.info.attrs) : a.name \in Range(ExtensionAttrs)}

PassesKeyFilter(entry) == entry.key.s # "" /\ KeyWanted(entry.key.s)

ErrorDefaults(case) ==
    /\ case.expectedTags = PyDict(<<>>)
    /\ case.expectedExtensions = PyDict(<<>>)
    /\ case.expectedCoreInfo.length = PyNone
    /\ case.expectedCoreInfo.bitrate = PyNone
    /\ case.expectedCoreInfo.sampleRate = PyNone
    /\ case.expectedCoreInfo.channels = PyNone
    /\ case.expectedCoreInfo.bitsPerSample = PyNone

\* C1: in every case build_case returns, whatever the decoder did, a
\* non-null expectedError comes with empty expectedTags, empty
\* expectedExtensions and five null expectedCoreInfo fields.
C1_ErrorExclusivity ==
    \A case \in BuiltCases : case.expectedError # PyNone => ErrorDefaults(case)

\* a finished run that holds an error case of each kind's neighbour: a case
\* with an error next to a case with tags and core info
C1_Witness ==
    /\ pc = "done"
    /\ \E case \in BuiltCases : case.expectedError # PyNone
    /\ \E case \in BuiltCases :
          /\ case.expectedError = PyNone
          /\ case.expectedTags # PyDict(<<>>)
          /\ case.expectedCoreInfo.bitrate # PyNone

\* whether normalising one of the values collect_tags or collect_extensions
\* reads of this decoded file raises
HasFailingValue(audio) ==
    \/ \E e \in Range(CappedItems(EnumeratedItems(audio))) :
          PassesKeyFilter(e) /\ Raised(normalize_tag_value(e.value))
    \/ \E a \in ExtensionValues(audio) :
          a.value.shape \notin {"None", "int", "bool", "float"} /\ Raised(StrOf(a.value))

\* C2: a failure raised while normalising one tag or extension value is
\* swallowed: no exception leaves build_case, the case is returned with a
\* null expectedError, the failing key is left out and the other keys of the
\* file are collected.
C2_FailureSwallowed ==
    \A i \in 1..Len(decoded) :
        (IsAudio(decoded[i]) /\ HasFailingValue(decoded[i])) =>
            /\ i \in Returned_Files
            /\ CaseAt(i).expectedError = PyNone
            /\ \A e \in Range(CappedItems(EnumeratedItems(decoded[i]))) :
                  PassesKeyFilter(e) =>
                      IF Raised(normalize_tag_value(e.value))
                      THEN e.key.s \notin Keys(CaseAt(i).expectedTags)
                      ELSE normalize_tag_value(e.value) # PyNone
                               => e.key.s \in Keys(CaseAt(i).expectedTags)

\* the canonical values of a dict of them
CanonValues(d) == {d.entries[i].value : i \in 1..Len(d.entries)}

\* C4: a non-finite float never shows in a built case: a tag whose value is
\* NaN or an infinity is left out (normalize_tag_value yields absence for
\* it), so is such an extension attribute, and such a core field is null.
C4_NonFiniteExcluded ==
    \A i \in Returned_Files :
        IsAudio(decoded[i]) =>
            /\ \A e \in Range(CappedItems(EnumeratedItems(decoded[i]))) :
                  NonFinite(e.value) =>
                      /\ normalize_tag_value(e.value) = PyNone
                      /\ e.key.s \notin Keys(CaseAt(i).expectedTags)
            /\ \A a \in ExtensionValues(decoded[i]) :
                  NonFinite(a.value) => a.name \notin Keys(CaseAt(i).expectedExtensions)
            /\ \A c \in CanonValues(CaseAt(i).expectedTags)
                        \cup CanonValues(CaseAt(i).expectedExtensions) :
                  c.kind = "double" => ~NonFinite(c.value)
            /\ ~NonFinite(CaseAt(i).expectedCoreInfo.length)
            /\ ~NonFinite(CaseAt(i).expectedCoreInfo.bitrate)
            /\ ~NonFinite(CaseAt(i).expectedCoreInfo.sampleRate)
            /\ ~NonFinite(CaseAt(i).expectedCoreInfo.channels)
            /\ ~NonFinite(CaseAt(i).expectedCoreInfo.bitsPerSample)
            /\ (decoded[i].info.shape # "None" /\ NonFinite(GetAttr(decoded[i].info, "length")))
                  => CaseAt(i).expectedCoreInfo.length = PyNone

\* what build_case does when the decoder gives nothing to collect from, with
\* the message recorded for a None result left open
NoCollectorCase(i, noResultMessage) ==
    /\ i \in Returned_Files
    /\ collected[i] = [tags |-> FALSE, extensions |-> FALSE]
    /\ ErrorDefaults(CaseAt(i))
    /\ decoded[i] = PyNone =>
          CaseAt(i).expectedError =
              [shape |-> "dict", code |-> "unsupportedFormat", message |-> noResultMessage]
    /\ Raised(decoded[i]) =>
          CaseAt(i).expectedError =
              [shape |-> "dict", code |-> "invalidHeader", message |-> decoded[i].msg]

\* C5 as claimed: a None result is recorded as {code: "unsupportedFormat",
\* message: "no result"}, a raised error as {code: "invalidHeader", message:
\* the error's text}; either way the case is returned and no collector runs.
C5_AsClaimed ==
    \A i \in 1..Len(decoded) :
        (decoded[i] = PyNone \/ Raised(decoded[i])) => NoCollectorCase(i, "no result")

\* C5 as amended: the message recorded for a None result is "mutagen
\* returned None"; the rest is as claimed.
C5_ErrorRecords ==
    \A i \in 1..Len(decoded) :
        (decoded[i] = PyNone \/ Raised(decoded[i])) => NoCollectorCase(i, "mutagen returned None")

\* a finished run with a file the decoder raised on and one it gave None for
C5_Witness ==
    /\ pc = "done"
    /\ \E i \in 1..Len(decoded) : decoded[i] = PyNone
    /\ \E i \in 1..Len(decoded) : Raised(decoded[i]) /\ decoded[i].msg = "bad magic bytes"

\* C6: within one format group no two cases have the same caseId.
C6_CaseIdUnique ==
    \A f \in DOMAIN by_format :
        \A i, j \in 1..Len(by_format[f]) :
            i # j => by_format[f][i].caseId # by_format[f][j].caseId

\* C9: a run over a non-empty list of files ends with the decoder called once
\* per file in order, each file in exactly one of Succeeded, DecodeFailed and
\* NoResult, and one case per file.
C9_OneCasePerFile ==
    (files # <<>> /\ RunEnded) =>
        /\ Len(decoded) = Len(files)
        /\ Returned_Files = 1..Len(files)
        /\ Cardinality(BuiltCases) = Len(files)
        /\ \A i \in 1..Len(files) :
              /\ \E c \in BuiltCases : c.inputFile = files[i]
              /\ (CaseAt(i).expectedError = PyNone) <=> IsAudio(decoded[i])
              /\ (CaseAt(i).expectedError # PyNone /\ CaseAt(i).expectedError.code = "invalidHeader")
                    <=> Raised(decoded[i])
              /\ (CaseAt(i).expectedError # PyNone /\ CaseAt(i).expectedError.code = "unsupportedFormat")
                    <=> decoded[i] = PyNone

-----------------------------------------------------------------------------
(* Properties of the functions *)

Applied(fn) == call.fn = fn /\ Returned

FirstN(seq, n) == SubSeq(seq, 1, IF Len(seq) < n THEN Len(seq) ELSE n)

\* the keys a list of entries leaves in expectedTags: those that pass the
\* key filter and whose value normalises to a value
KeptKeys(entries) ==
    {e.key.s : e \in {x \in Range(entries) :
                        PassesKeyFilter(x) /\ normalize_tag_value(x.value) # PyNone}}

\* the entries of a list that pass the key filter, in order
Passing(entries) == SelectSeq(entries, PassesKeyFilter)

\* ret holds exactly the keys of `entries` that are kept, each with the
\* normalised value of its last entry
HoldsExactly(entries) ==
    /\ Keys(ret) = KeptKeys(entries)
    /\ \A i \in 1..Len(entries) :
          (/\ entries[i].key.s \in KeptKeys(entries)
           /\ PassesKeyFilter(entries[i])
           /\ normalize_tag_value(entries[i].value) # PyNone
           /\ \A j \in (i + 1)..Len(entries) : entries[j].key # entries[i].key)
          => DictGet(ret, entries[i].key.s) = normalize_tag_value(entries[i].value)

OverCap(audio) == Len(EnumeratedItems(audio)) > TagCap

\* C3 as claimed: for a container of more than 120 entries expectedTags has
\* at most 120 entries, and they are the first 120 entries in enumeration
\* order that pass the key filter (the filter applied before the cap).
C3_AsClaimed ==
    (Applied("collect_tags") /\ ~Raised(ret) /\ OverCap(call.arg)) =>
        /\ Len(ret.entries) <= TagCap
        /\ HoldsExactly(FirstN(Passing(EnumeratedItems(call.arg)), TagCap))

\* C3 as amended: expectedTags has at most 120 entries, and they are the
\* entries among the first 120 in enumeration order that pass the key filter
\* (the cap applied before the filter: a rejected entry uses up the cap).
C3_CapThenFilter ==
    (Applied("collect_tags") /\ ~Raised(ret) /\ OverCap(call.arg)) =>
        /\ Len(ret.entries) <= TagCap
        /\ HoldsExactly(Passing(FirstN(EnumeratedItems(call.arg), TagCap)))

\* collect_tags has returned on a container of more than 120 entries, one of
\* the first 120 rejected by the filter and one past the 120th accepted by it
C3_Witness ==
    /\ Applied("collect_tags")
    /\ ~Raised(ret)
    /\ OverCap(call.arg)
    /\ \E i \in 1..TagCap : ~PassesKeyFilter(EnumeratedItems(call.arg)[i])
    /\ PassesKeyFilter(EnumeratedItems(call.arg)[TagCap + 1])
    /\ Len(ret.entries) < TagCap
    /\ Len(ret.entries) > 0

\* a collection whose elements are all of bytes, bytearray or memoryview
BytesCollection(v) ==
    v.shape = "list" /\ \A i \in 1..Len(v.items) : v.items[i].shape \in {"bytes", "bytearray", "memoryview"}

\* the bytes of the blobs i.. of a collection, one after the other
RECURSIVE BytesFrom(_, _)
BytesFrom(items, i) ==
    IF i > Len(items) THEN <<>> ELSE items[i].raw \o BytesFrom(items, i + 1)

\* the byte content of a binary input
ContentOf(v) ==
    IF v.shape = "object" THEN v.tobytes.raw
    ELSE IF v.shape = "bytes" THEN v.raw
    ELSE BytesFrom(v.items, 1)

\* the binary inputs of the claim: an image-like object, a bytes, a
\* collection of byte sequences
BinaryInputAsClaimed(v) ==
    \/ v.shape = "object" /\ v.imageformat /\ ~Raised(v.tobytes)
    \/ v.shape = "bytes"
    \/ BytesCollection(v)

\* the same, the collection having an element at least
BinaryInputAmended(v) ==
    \/ v.shape = "object" /\ v.imageformat /\ ~Raised(v.tobytes)
    \/ v.shape = "bytes"
    \/ BytesCollection(v) /\ v.items # <<>>

\* C7 as claimed: binary inputs of the same byte content, whatever their
\* representation (the empty content included), normalise to the same
\* binary value, with that content's size and digest.
C7_AsClaimed ==
    (Applied("normalize_tag_value") /\ BinaryInputAsClaimed(call.arg)) =>
        /\ ret.kind = "binary"
        /\ \A w \in TagValues :
              (BinaryInputAsClaimed(w) /\ ContentOf(w) = ContentOf(call.arg))
                  => normalize_tag_value(w) = ret

\* C7 as amended: the same of an image-like object, a bytes value and a
\* collection of at least one element whose elements are all byte
\* sequences; a collection of no element is no binary input.
C7_SameBytesSameBinary ==
    (Applied("normalize_tag_value") /\ BinaryInputAmended(call.arg)) =>
        /\ ret.kind = "binary"
        /\ ret.value.size = PyInt(Len(ContentOf(call.arg)))
        /\ \A w \in TagValues :
              (BinaryInputAmended(w) /\ ContentOf(w) = ContentOf(call.arg))
                  => normalize_tag_value(w) = ret

\* a collection of two blobs of different types has been normalised, and an
\* image-like object and a bytes value hold the same three bytes
C7_Witness ==
    /\ Applied("normalize_tag_value")
    /\ BytesCollection(call.arg)
    /\ Len(call.arg.items) = 2
    /\ ContentOf(call.arg) = <<255, 0, 66>>
    /\ call.arg.items[1].raw = <<255>>
    /\ ret.kind = "binary"
    /\ {Image(<<255, 0, 66>>), PyBytes(<<255, 0, 66>>)} \subseteq TagValues

\* whether c is a canonical value: one of the five kinds, with the value of
\* that kind's shape
WellShaped(c) ==
    /\ c.shape = "dict"
    /\ DOMAIN c = {"shape", "kind", "value"}
    /\ c.kind \in {"text", "binary", "bool", "int", "double"}
    /\ c.kind = "text" =>
          /\ c.value.shape = "list"
          /\ \A i \in 1..Len(c.value.items) : c.value.items[i].shape = "str"
    /\ c.kind = "binary" =>
          /\ c.value.shape = "dict"
          /\ DOMAIN c.value = {"shape", "size", "sha256"}
          /\ c.value.size.shape = "int"
          /\ c.value.size.n >= 0
          /\ c.value.sha256.shape = "str"
    /\ c.kind = "bool" => c.value.shape = "bool"
    /\ c.kind = "int" => c.value.shape = "int"
    /\ c.kind = "double" => c.value.shape = "float" /\ c.value.cls = "finite"

\* C8: what normalize_tag_value returns is None or a canonical value of one
\* of the five kinds with the value of that kind's shape, and expectedTags as
\* collect_tags returns it holds canonical values alone, no None.
C8_CanonicalClosure ==
    /\ (Applied("normalize_tag_value") /\ ~Raised(ret)) => (ret = PyNone \/ WellShaped(ret))
    /\ (Applied("collect_tags") /\ ~Raised(ret)) =>
          \A i \in 1..Len(ret.entries) :
              /\ ret.entries[i].value # PyNone
              /\ WellShaped(ret.entries[i].value)

\* normalize_tag_value has fallen back to the string of an object, or
\* collect_tags has left out an entry whose value normalises to None
C8_Witness ==
    \/ /\ Applied("normalize_tag_value")
       /\ call.arg = Printable("ASFValue")
       /\ ret = Canon("text", PyList(<<PyStr("ASFValue")>>))
    \/ /\ Applied("collect_tags")
       /\ ~Raised(ret)
       /\ \E e \in Range(EnumeratedItems(call.arg)) :
             PassesKeyFilter(e) /\ normalize_tag_value(e.value) = PyNone
       /\ ret.entries # <<>>

FormatIds ==
    {"mp3", "flac", "m4a", "mp4", "wave", "aiff", "asf", "apev2", "musepack",
     "wavpack", "tak", "dsf", "dsdiff", "aac", "ac3", "eac3", "ogg", "trueAudio",
     "optimFrog", "smf", "monkeysAudio", "id3", "unknown"}

\* the name is the stem, a dot and a spelling of the extension
Spelled(name, ext) == \E stem \in Stems, sp \in Spellings(ext) : name = stem \o "." \o sp

\* C10: format_from_filename returns one non-null identifier for every
\* name, fixed by the lowercased extension: m4a and m4b give "m4a", mp4
\* gives "mp4", dff and dsdiff give "dsdiff", mid and smf give "smf", an
\* extension of the table never gives "unknown", and an extension without
\* an entry, or no extension, gives "unknown".
C10_ClassifierTotal ==
    Applied("format_from_filename") =>
        /\ ret.shape = "str"
        /\ ret.s \in FormatIds
        /\ \A ext \in TableExts \cup OtherExts :
              Spelled(call.arg.s, ext) =>
                  /\ ret.s = format_from_filename("case." \o ext)
                  /\ ext \in {"m4a", "m4b"} => ret.s = "m4a"
                  /\ ext = "mp4" => ret.s = "mp4"
                  /\ ext \in {"dff", "dsdiff"} => ret.s = "dsdiff"
                  /\ ext \in {"mid", "smf"} => ret.s = "smf"
                  /\ ext \in TableExts => ret.s # "unknown"
                  /\ ext \in OtherExts => ret.s = "unknown"
        /\ call.arg.s \in BareNames => ret.s = "unknown"

\* a name with an upper-case alias has been classified
C10_Witness ==
    /\ Applied("format_from_filename")
    /\ call.arg.s = "x.y.M4B"
    /\ ret = PyStr("m4a")

=============================================================================
